---- MODULE Spec2Model ----
(***************************************************************************)
(* The ancestry grid dashboards of src/ancestrygrid.py and                 *)
(* src/ancestrygridupdated.py: a dataset of institution records, a         *)
(* dropdown selection, and the callbacks that compute the year x degree    *)
(* label table and the "merged into" / "absorbed" lineage display.         *)
(*                                                                         *)
(* A data frame is a sequence of rows (records); a nullable cell is the    *)
(* empty set (null) or a singleton; a dropdown value is the sequence of    *)
(* its '|||'-separated fields, the empty sequence being "no selection".    *)
(* Definitions of ancestrygridupdated.py whose names collide with those of *)
(* ancestrygrid.py carry the prefix upd_.                                  *)
(***************************************************************************)
EXTENDS Integers, Sequences, FiniteSets, TLC

\* Longest dataset (number of rows) drawn in the initial states.
MaxRows == 3

\* Most clicks one rendered link accumulates before it is re-rendered.
MaxClicks == 1

\* ---------------------------------------------------------------- pandas

Null == {}

NotNull(c) == c # {}

\* the value of a non-null cell
Val(c) == CHOOSE v \in c : TRUE

Range(s) == {s[i] : i \in DOMAIN s}

\* Series.unique() / drop_duplicates(): first occurrences, in order
RECURSIVE Unique(_)
Unique(s) ==
    IF s = <<>> THEN <<>>
    ELSE LET front == Unique(SubSeq(s, 1, Len(s) - 1))
             last  == s[Len(s)]
         IN  IF last \in Range(front) THEN front ELSE Append(front, last)

\* sort_values(by=key) / sorted(): ascending, rows with equal keys keep
\* their order (numpy sorts arrays this short by insertion)
RECURSIVE SortPairs(_)
SortPairs(s) ==
    IF s = <<>> THEN <<>>
    ELSE LET front == SortPairs(SubSeq(s, 1, Len(s) - 1))
             last  == s[Len(s)]
             n     == Cardinality({i \in DOMAIN front : front[i][1] <= last[1]})
         IN  SubSeq(front, 1, n) \o <<last>> \o SubSeq(front, n + 1, Len(front))

SortBy(s, key(_)) ==
    LET keyed  == [i \in DOMAIN s |-> <<key(s[i]), s[i]>>]
        sorted == SortPairs(keyed)
    IN  [i \in DOMAIN sorted |-> sorted[i][2]]

Identity(x) == x

\* the minimum of a non-empty set of integers (Series.min())
Min(S) == CHOOSE m \in S : \A x \in S : m <= x

\* the maximum of a non-empty set of integers (max(...))
Max(S) == CHOOSE m \in S : \A x \in S : x <= m

\* a column of a frame, or a value computed per row (df['class_status'])
Col(df, f(_)) == [i \in DOMAIN df |-> f(df[i])]

Flatten(ss) ==
    LET RECURSIVE Fl(_)
        Fl(k) == IF k = 0 THEN <<>> ELSE Fl(k - 1) \o ss[k]
    IN  Fl(Len(ss))

\* ------------------------------------------------------------ the dataset

\* institution names, in Python's string order (the order sorted() gives)
NameOrder == <<"A College", "A University", "B College", "None", "Z Unknown">>

NameRank(n) == CHOOSE i \in DOMAIN NameOrder : NameOrder[i] = n

\* the '-1' that marks a closed institution in merged_into_id
Sentinel == -1

\* names per group of the partitioned copy of the dataset
GroupSize == 10

VARIABLES
    app,             \* which program runs: "ancestrygrid" or "ancestrygridupdated"
    new_data,        \* the rows of the parquet file
    has_merged_into, \* whether the file has a merged_into_id column
    value,           \* 'current-name-dropdown'.value
    table,           \* 'year-degree-label-table'.children
    display,         \* 'merged-into-display'.children
    n_clicks,        \* n_clicks of the rendered links, in display order
    pending,         \* update_table is due: the dropdown value changed
    outcome          \* how the last callback ended: "ok" or the exception raised

vars == <<app, new_data, has_merged_into, value, table, display, n_clicks, pending, outcome>>

\* ------------------------------------------------- ancestrygrid.py: set-up

\* the (current_name, unit_id) groups of dropdown_df
NameUnitPairs(data) == {<<r.current_name, r.unit_id>> : r \in Range(data)}

\* one option per (current_name, unit_id), its value 'current_name|||unit_id',
\* its label naming the earlier inst_names; sorted by label
dropdown_options(data) ==
    LET opt(p) ==
            [label |-> [current_name |-> p[1], unit_id |-> p[2],
                        earlier |-> {r.inst_name : r \in
                                        {q \in Range(data) : /\ q.current_name = p[1]
                                                             /\ q.unit_id = p[2]
                                                             /\ q.inst_name # "N/A"
                                                             /\ q.inst_name # p[1]}}],
             value |-> <<p[1], p[2]>>]
        key(p) == NameRank(p[1]) * 100 + p[2]
        RECURSIVE ToSeq(_)
        ToSeq(S) == IF S = {} THEN <<>>
                    ELSE LET p == CHOOSE x \in S : \A y \in S : key(x) <= key(y)
                         IN  <<opt(p)>> \o ToSeq(S \ {p})
    IN  ToSeq(NameUnitPairs(data))

\* name -> index of the name among the sorted distinct names, div 10
name_to_group(data) ==
    LET names == {o.value[1] : o \in Range(dropdown_options(data))}
    IN  [n \in names |-> Cardinality({m \in names : NameRank(m) < NameRank(n)}) \div GroupSize]

\* pd.read_parquet('updated_data_grouped/group_id=<g>/'): the rows of the
\* dataset whose name belongs to group g
read_group(data, g) ==
    LET groups == name_to_group(data)
    IN  SelectSeq(data, LAMBDA r : r.current_name \in DOMAIN groups
                                   /\ groups[r.current_name] = g)

desired_order ==
    <<"Doctoral", "Master's", "Bachelor's", "Associates", "Bacc/Assoc",
      "SF: 2Yr", "SF: 4Yr", "Tribal/Oth", "Not in">>

\* class_status values of a (year, degree_label), one per distinct
\* (class_status, const_cat_value) pair, by const_cat_value
get_unique_labels_for_year_degree_label(data, year, degree_label) ==
    LET filtered_df  == SelectSeq(data, LAMBDA r : r.year = year /\ r.degree_label = degree_label)
        pairs        == Col(filtered_df, LAMBDA r : <<r.class_status, r.const_cat_value>>)
        unique_pairs == SortBy(Unique(pairs), LAMBDA p : p[2])
    IN  Col(unique_pairs, LAMBDA p : p[1])

\* sorted(new_data['year'].unique())
Years(data) == SortBy(Unique(Col(data, LAMBDA r : r.year)), Identity)

\* --------------------------------------------- ancestrygrid.py: update_table

Span(text, arg) == [tag |-> "Span", text |-> text, arg |-> arg]

Br == [tag |-> "Br"]

\* html.A(name, id={'type', 'unit_id', 'index'}, data-value=...)
Link(type, unit_id, index, name, data_value) ==
    [tag |-> "A", type |-> type, unit_id |-> unit_id, index |-> index,
     text |-> name, value |-> data_value]

\* the rows of the selected (current_name, unit_id) in the frame read
FilteredData(frame, selected) ==
    SelectSeq(frame, LAMBDA r : r.current_name = selected[1] /\ r.unit_id = selected[2])

\* the header row: "Year" and one cell per year
TableHeader(years) ==
    [tag |-> "Tr", kind |-> "header",
     cells |-> <<[tag |-> "Th", text |-> "Year"]>>
               \o [i \in DOMAIN years |-> [tag |-> "Th", year |-> years[i]]]]

\* groupby('year')['inst_name'].first(): the inst_name of the first row of each year
InstNameByYear(rows, year) ==
    LET of_year == SelectSeq(rows, LAMBDA r : r.year = year)
    IN  IF of_year = <<>> THEN "N/A" ELSE of_year[1].inst_name

InstNameRow(rows, years, title) ==
    [tag |-> "Tr", kind |-> "inst_name",
     cells |-> <<[tag |-> "Th", text |-> title]>>
               \o [i \in DOMAIN years |-> [tag |-> "Th", text |-> InstNameByYear(rows, years[i])]]]

\* one cell of the grid: the statuses of (year, degree_label) over the whole
\* dataset, those of the selected institution highlighted; "-" when there are none
GridCell(data, filtered_data, year, degree_label) ==
    LET all_statuses  == get_unique_labels_for_year_degree_label(data, year, degree_label)
        inst_statuses == Unique(Col(SelectSeq(filtered_data,
                                        LAMBDA r : r.year = year /\ r.degree_label = degree_label),
                                    LAMBDA r : r.class_status))
    IN  IF all_statuses # <<>>
        THEN [tag |-> "Details", summary |-> degree_label,
              statuses |-> [i \in DOMAIN all_statuses |->
                              [text |-> all_statuses[i],
                               highlighted |-> all_statuses[i] \in Range(inst_statuses)]],
              open |-> inst_statuses # <<>>]
        ELSE [tag |-> "Div", text |-> "-"]

\* one row per degree label of desired_order: an empty first cell, then a cell per year
TableRows(data, filtered_data, years) ==
    [d \in DOMAIN desired_order |->
        [tag |-> "Tr", kind |-> "row",
         cells |-> <<[tag |-> "Td", text |-> ""]>>
                   \o [i \in DOMAIN years |->
                         GridCell(data, filtered_data, years[i], desired_order[d])]]]

\* the non-null merged_into_id values of the selected rows other than -1
ValidMergedInto(filtered_data) ==
    Col(SelectSeq(filtered_data,
                  LAMBDA r : NotNull(r.merged_into_id) /\ Val(r.merged_into_id) # Sentinel),
        LAMBDA r : Val(r.merged_into_id))

\* the filter left out: every name is kept
ShownName_any(name) == TRUE

\* names kept as link texts: pd.notnull(name) and name != "None" (a name
\* column holds strings here, the placeholder "None" among them)
ShownName(name) == name # "None"

\* "Merged Into: <links> (<year>)"
MergedIntoElements(data, filtered_data, has_col) ==
    IF ~(has_col /\ \E i \in DOMAIN filtered_data : NotNull(filtered_data[i].merged_into_id))
    THEN <<>>
    ELSE
    LET valid_merged_into == ValidMergedInto(filtered_data)
    IN  IF valid_merged_into = <<>> THEN <<>>
        ELSE
        LET merged_into_value == Unique(valid_merged_into)[1]
            associated_data   == SelectSeq(data, LAMBDA r : r.unit_id = merged_into_value)
            associated_names  == SelectSeq(Unique(Col(associated_data, LAMBDA r : r.current_name)),
                                           ShownName)
            merge_year        == Min({r.year : r \in
                                        {q \in Range(filtered_data) :
                                            /\ NotNull(q.merged_into_id)
                                            /\ Val(q.merged_into_id) # Sentinel}})
            uid(name)         == SelectSeq(associated_data,
                                           LAMBDA r : r.current_name = name)[1].unit_id
            link(i)           == <<Link("merge-link", merged_into_value, i - 1,
                                        associated_names[i],
                                        <<associated_names[i], uid(associated_names[i])>>)>>
                                 \o IF i < Len(associated_names)
                                    THEN <<Span(", ", <<>>)>> ELSE <<>>
        IN  IF associated_names = <<>> THEN <<>>
            ELSE <<Span("Merged Into: ", <<>>)>>
                 \o Flatten([i \in DOMAIN associated_names |-> link(i)])
                 \o <<Span(" (%)", <<merge_year>>)>>

\* the comparison with the selected unit_id left out: every merged row
MergedFromRecords_anyTarget(data, current_unit_id) ==
    SelectSeq(data, LAMBDA r : NotNull(r.merged_into_id))

\* the rows whose merged_into_id is the selected unit_id
MergedFromRecords(data, current_unit_id) ==
    SelectSeq(data, LAMBDA r : NotNull(r.merged_into_id)
                               /\ Val(r.merged_into_id) = current_unit_id)

\* merged_from_records[['unit_id', 'current_name', 'year']].drop_duplicates()
MergedFromInfo(merged_from_records) ==
    Unique(Col(merged_from_records,
               LAMBDA r : [unit_id |-> r.unit_id, current_name |-> r.current_name,
                           year |-> r.year]))

\* "Absorbed: <links> (<year>)" for each row of merged_from_info
AbsorbedElements(data, current_unit_id, before) ==
    LET merged_from_records == MergedFromRecords(data, current_unit_id)
        merged_from_info    == MergedFromInfo(merged_from_records)
        entry(i) ==
            LET row             == merged_from_info[i]
                inst_names_data == SelectSeq(data, LAMBDA r : r.unit_id = row.unit_id)
                inst_names      == SelectSeq(Unique(Col(inst_names_data, LAMBDA r : r.inst_name)),
                                             ShownName)
                dropdown_value  == <<row.current_name, row.unit_id>>
                link(j)         == <<Link("merged-from-link", row.unit_id, j - 1,
                                          inst_names[j], dropdown_value)>>
                                   \o IF j < Len(inst_names)
                                      THEN <<Span(", ", <<>>)>> ELSE <<>>
            IN  (IF inst_names # <<>>
                 THEN <<Span("Absorbed: ", <<>>)>>
                      \o Flatten([j \in DOMAIN inst_names |-> link(j)])
                      \o <<Span(" (%)", <<row.year>>)>>
                 ELSE <<>>)
                \o IF i < Len(merged_from_info) THEN <<Br, Br>> ELSE <<>>
    IN  IF merged_from_records = <<>> THEN <<>>
        ELSE (IF before # <<>> THEN <<Br, Br>> ELSE <<>>)
             \o Flatten([i \in DOMAIN merged_from_info |-> entry(i)])

Outputs(oc, t, d) == [outcome |-> oc, table |-> t, display |-> d]

\* what the callback leaves when it raises: the outputs are not updated
Raises(exception) == [outcome |-> exception, table |-> table, display |-> display]

\* update_table(selected_current_name): read_ok says whether the partition
\* of the selected name can be read
update_table(data, has_col, selected, read_ok) ==
    IF selected = <<>> THEN Outputs("ok", <<>>, <<>>)
    ELSE IF Len(selected) # 2 THEN Raises("ValueError")
    ELSE IF selected[1] \notin DOMAIN name_to_group(data) THEN Raises("KeyError")
    ELSE IF ~read_ok THEN Raises("OSError")
    ELSE
    LET group_id      == name_to_group(data)[selected[1]]
        group_data    == read_group(data, group_id)
        filtered_data == FilteredData(group_data, selected)
        years         == Years(data)
        the_table     == <<TableHeader(years),
                           InstNameRow(FilteredData(data, selected), years, "Inst. Name")>>
                         \o TableRows(data, filtered_data, years)
        merged_into   == MergedIntoElements(data, filtered_data, has_col)
    IN  IF filtered_data = <<>> THEN Raises("IndexError")
        ELSE IF ~has_col THEN Raises("KeyError")
        ELSE Outputs("ok", the_table,
                     merged_into \o AbsorbedElements(data, filtered_data[1].unit_id, merged_into))

\* ------------------------------------------ ancestrygridupdated.py: set-up

upd_desired_order ==
    <<"Doctoral", "Master's", "Bachelor's", "Associates",
      "SF: 2Yr", "SF: 4Yr", "Tribal/Oth", "Not in">>

\* class_status values of a (year, degree_label) of the frame, sorted by
\* const_cat_value, each once
upd_get_unique_labels_for_year_degree_label(year, degree_label, data_frame) ==
    LET filtered_df == SelectSeq(data_frame,
                                 LAMBDA r : r.year = year /\ r.degree_label = degree_label)
    IN  Unique(Col(SortBy(filtered_df, LAMBDA r : r.const_cat_value),
                   LAMBDA r : r.class_status))

\* new_data.drop_duplicates(subset=['year', 'degree_label', 'class_status']):
\* the first row of each (year, degree_label, class_status)
new_df_with_unique_labels(data) ==
    LET key(r) == <<r.year, r.degree_label, r.class_status>>
        idx    == SelectSeq([i \in DOMAIN data |-> i],
                            LAMBDA i : \A j \in 1..(i - 1) : key(data[j]) # key(data[i]))
    IN  [k \in DOMAIN idx |-> data[idx[k]]]

\* the degree labels as a Categorical over desired_order, sorted, distinct:
\* the labels of desired_order that occur, in that order, then NaN (a null
\* cell) when some label is not a category
all_degree_labels_sorted(data) ==
    LET labels  == {r.degree_label : r \in Range(data)}
        listed  == SelectSeq(upd_desired_order, LAMBDA d : d \in labels)
        listedC == [i \in DOMAIN listed |-> {listed[i]}]
    IN  IF labels \subseteq Range(upd_desired_order) THEN listedC
        ELSE Append(listedC, Null)

\* groupby('year')['degree_label'].unique(): the distinct labels of a year,
\* <<>> for a year without rows
year_degree_label_mapping(data, year) ==
    Unique(Col(SelectSeq(new_df_with_unique_labels(data), LAMBDA r : r.year = year),
               LAMBDA r : r.degree_label))

\* --------------------------------------- ancestrygridupdated.py: update_table

\* the rows of the selected current_name; no row when nothing is selected
upd_FilteredData(data, selected) ==
    IF selected = <<>> THEN <<>>
    ELSE SelectSeq(data, LAMBDA r : r.current_name = selected[1])

\* 'merged_into_id' in filtered_data.columns and not all of it null
upd_merged_into_exists(filtered_data, has_col) ==
    has_col /\ \E i \in DOMAIN filtered_data : NotNull(filtered_data[i].merged_into_id)

\* "Merged Into: <value>, Associated Names: <links>", the last element dropped
upd_MergedIntoDisplay(data, has_col, selected) ==
    LET filtered_data == upd_FilteredData(data, selected)
    IN  IF selected = <<>> \/ ~upd_merged_into_exists(filtered_data, has_col) THEN <<>>
        ELSE
        LET merged_into_value ==
                Unique(Col(SelectSeq(filtered_data, LAMBDA r : NotNull(r.merged_into_id)),
                           LAMBDA r : Val(r.merged_into_id)))[1]
            associated_data   == SelectSeq(data, LAMBDA r : r.unit_id = merged_into_value)
            associated_names  == Unique(Col(associated_data, LAMBDA r : r.current_name))
            link(i) == <<[tag |-> "A", type |-> "merge-link", index |-> i - 1,
                          text |-> associated_names[i], value |-> <<associated_names[i]>>],
                         Span(", ", <<>>)>>
            elements == <<Span("Merged Into: ", <<>>), Span("%", <<merged_into_value>>)>>
                        \o IF associated_names # <<>>
                           THEN <<Span(", Associated Names: ", <<>>)>>
                                \o Flatten([i \in DOMAIN associated_names |-> link(i)])
                           ELSE <<>>
        IN  SubSeq(elements, 1, Len(elements) - 1)

\* the Details of one (year, degree_label): the statuses of the pair, those
\* the selected name has in that year highlighted
upd_Details(data, selected, year, degree_label) ==
    LET labels == upd_get_unique_labels_for_year_degree_label(
                      year, degree_label, new_df_with_unique_labels(data))
        of_inst == {r.class_status : r \in
                        {q \in Range(upd_FilteredData(data, selected)) : q.year = year}}
        cell_content == [i \in DOMAIN labels |->
                            [text |-> labels[i], highlighted |-> labels[i] \in of_inst]]
    IN  [tag |-> "Details", summary |-> degree_label, statuses |-> cell_content,
         open |-> \E i \in DOMAIN cell_content : cell_content[i].highlighted]

upd_Empty == [tag |-> "Empty", text |-> ""]

\* columns_content[year]: per label of all_degree_labels_sorted, its Details
\* when the year has the label, '' otherwise
columns_content(data, selected, year) ==
    LET all_labels == all_degree_labels_sorted(data)
        of_year    == Range(year_degree_label_mapping(data, year))
    IN  [k \in DOMAIN all_labels |->
            IF NotNull(all_labels[k]) /\ Val(all_labels[k]) \in of_year
            THEN upd_Details(data, selected, year, Val(all_labels[k]))
            ELSE upd_Empty]

\* the most degree labels any one year has
max_rows(data, years) ==
    Max({Len(year_degree_label_mapping(data, years[i])) : i \in DOMAIN years})

upd_TableRows(data, selected, years) ==
    [i \in 1..max_rows(data, years) |->
        [tag |-> "Tr", kind |-> "row",
         cells |-> <<[tag |-> "Td", text |-> " "]>>
                   \o [y \in DOMAIN years |->
                         LET column == columns_content(data, selected, years[y])
                         IN  IF i <= Len(column) THEN column[i] ELSE upd_Empty]]]

\* the "Merged Into" cells appended to the header row and the name row
upd_MergedIntoColumn(row, filtered_data, has_col, cell) ==
    IF upd_merged_into_exists(filtered_data, has_col)
    THEN [row EXCEPT !.cells = Append(@, cell)]
    ELSE row

upd_update_table(data, has_col, selected) ==
    LET years         == Years(data)
        filtered_data == upd_FilteredData(data, selected)
        table_header  == upd_MergedIntoColumn(TableHeader(years), filtered_data, has_col,
                                              [tag |-> "Th", text |-> "Merged Into"])
        inst_name_row == upd_MergedIntoColumn(
                             InstNameRow(filtered_data, years, "Institution Name"),
                             filtered_data, has_col,
                             [tag |-> "Th", merged_into_id |-> filtered_data[1].merged_into_id])
    IN  IF years = <<>> THEN Raises("ValueError")
        ELSE Outputs("ok",
                     <<table_header, inst_name_row>> \o upd_TableRows(data, selected, years),
                     upd_MergedIntoDisplay(data, has_col, selected))

\* ------------------------------------------------- update_dropdown_on_click

\* the rendered links, in display order
Links(d) == SelectSeq(d, LAMBDA e : e.tag = "A")

\* n_clicks of a link that was never clicked is None
Clicks(c) == IF c = Null THEN 0 ELSE Val(c)

NoUpdate == <<"no_update">>

\* ancestrygrid.py: trigger is the position of the activated link among the
\* rendered links, 0 when the callback fires with none activated. The value
\* returned is that of the first link of the activated link's type that has
\* clicks.
update_dropdown_on_click(links, clicks, trigger) ==
    IF trigger = 0 THEN NoUpdate
    ELSE LET type    == links[trigger].type
             of_type == SelectSeq([i \in DOMAIN links |-> i], LAMBDA i : links[i].type = type)
             clicked == SelectSeq(of_type, LAMBDA i : Clicks(clicks[i]) > 0)
         IN  IF clicked = <<>> THEN NoUpdate ELSE <<"value", links[clicked[1]].value>>

\* ancestrygridupdated.py: the value of the first link with the most clicks;
\* max() over a list that mixes None and numbers raises TypeError
upd_update_dropdown_on_click(links, clicks) ==
    IF \A i \in DOMAIN clicks : Clicks(clicks[i]) = 0 THEN NoUpdate
    ELSE IF \E i \in DOMAIN clicks : clicks[i] = Null THEN <<"TypeError">>
    ELSE LET most == Max({Val(clicks[i]) : i \in DOMAIN clicks})
             clicked_index == Min({i \in DOMAIN clicks : Val(clicks[i]) = most})
         IN  <<"value", links[clicked_index].value>>

\* ------------------------------------------------------------ the datasets

Row(name, unit, inst, year, label, status, rank, merged) ==
    [current_name |-> name, unit_id |-> unit, inst_name |-> inst, year |-> year,
     degree_label |-> label, class_status |-> status, const_cat_value |-> rank,
     merged_into_id |-> merged]

\* the name an institution carried in a year: an earlier one in 2020
InstName(name, year) ==
    IF name = "None" \/ year # 2020 THEN name
    ELSE IF name = "B College" THEN "B Institute" ELSE "A Institute"

\* rows that differ in lineage: institution 2 in both years, its
\* merged_into_id null, -1, 1 or 2; institution 1 in both years, null or
\* merged into 2; institution 1 under a later name and under the placeholder
LineageRows ==
    {Row(p[1], p[2], InstName(p[1], y), y, "Doctoral", "Active", 1, m) :
        p \in {<<"B College", 2>>}, y \in {2020, 2021}, m \in {Null, {Sentinel}, {1}, {2}}}
    \cup
    {Row(p[1], p[2], InstName(p[1], y), y, "Doctoral", "Active", 1, m) :
        p \in {<<"A College", 1>>}, y \in {2020, 2021}, m \in {Null, {2}}}
    \cup
    {Row(p[1], p[2], InstName(p[1], y), y, "Doctoral", "Active", 1, Null) :
        p \in {<<"A University", 1>>, <<"None", 1>>}, y \in {2021}}

\* rows that differ in the grid: institution 1 in two years with two listed
\* degree labels and statuses whose ranks differ from their alphabetical
\* order and from each other; a label that is not listed; institution 2
PivotRows ==
    {Row("A College", 1, "A College", y, d, s[1], s[2], Null) :
        y \in {2020, 2021}, d \in {"Doctoral", "Associates"},
        s \in {<<"Active", 2>>, <<"Closed", 1>>, <<"Active", 1>>}}
    \cup
    {Row("A College", 1, "A College", 2020, "Other", "Closed", 1, Null)}
    \cup
    {Row("B College", 2, "B College", 2020, d, "Active", 1, Null) :
        d \in {"Doctoral", "Associates"}}

\* rows that differ in the links they give: institution 2 merged into 1,
\* institution 1 under two current names, merged into 2 or not
SessionRows ==
    {Row("B College", 2, "B College", 2021, "Doctoral", "Active", 1, {1})}
    \cup
    {Row("A College", 1, "A College", 2021, "Doctoral", "Active", 1, m) : m \in {Null, {2}}}
    \cup
    {Row("A University", 1, "A University", 2021, "Doctoral", "Active", 1, Null)}

\* the datasets of at least one row and at most n
SeqsUpTo(S, n) == UNION {[1..k -> S] : k \in 1..n}

\* a file without the merged_into_id column: the cell is null in every row
WithoutColumn(data) == [i \in DOMAIN data |-> [data[i] EXCEPT !.merged_into_id = Null]]

Apps == {"ancestrygrid", "ancestrygridupdated"}

\* what the dropdown can be set to: nothing, an option, a name that is not
\* in the dataset, a name of the dataset with an identifier (9) it has no rows under
SelectionValues ==
    IF app = "ancestrygrid"
    THEN {<<>>, <<"Z Unknown", 1>>}
         \cup {o.value : o \in Range(dropdown_options(new_data))}
         \cup {<<r.current_name, 9>> : r \in Range(new_data)}
    ELSE {<<>>, <<"Z Unknown">>} \cup {<<r.current_name>> : r \in Range(new_data)}

\* the values of the options of the dropdown
DropdownValues ==
    IF app = "ancestrygrid"
    THEN {o.value : o \in Range(dropdown_options(new_data))}
    ELSE {<<r.current_name>> : r \in Range(new_data)}

\* --------------------------------------------------------------- the system

\* the page is loaded: nothing is selected, nothing is rendered, and the
\* first update_table is due
InitWith(rows, values) ==
    /\ app \in Apps
    /\ has_merged_into \in BOOLEAN
    /\ new_data \in IF has_merged_into
                    THEN SeqsUpTo(rows, MaxRows)
                    ELSE {WithoutColumn(d) : d \in SeqsUpTo(rows, MaxRows)}
    /\ value \in IF values = {} THEN SelectionValues ELSE values
    /\ table = <<>>
    /\ display = <<>>
    /\ n_clicks = <<>>
    /\ pending = TRUE
    /\ outcome = "ok"

Init == InitWith(LineageRows, {<<>>})

\* update_table as a function of the dataset and the selection: any value
\* of the dropdown on a page not yet rendered
InitLineage == InitWith(LineageRows, {})

InitPivot == InitWith(PivotRows, {})

\* the outputs added to the children already on the page instead of
\* replacing them
Render_accumulate(out) ==
    /\ outcome' = out.outcome
    /\ table' = IF out.outcome = "ok" THEN table \o out.table ELSE table
    /\ display' = IF out.outcome = "ok" THEN display \o out.display ELSE display
    /\ n_clicks' = IF out.outcome = "ok"
                   THEN [i \in DOMAIN Links(display \o out.display) |-> Null]
                   ELSE n_clicks
    /\ pending' = FALSE

\* the outputs of update_table take effect; a display that is rendered anew
\* has links that were never clicked
Render(out) ==
    /\ outcome' = out.outcome
    /\ table' = out.table
    /\ display' = out.display
    /\ n_clicks' = IF out.outcome = "ok"
                   THEN [i \in DOMAIN Links(out.display) |-> Null]
                   ELSE n_clicks
    /\ pending' = FALSE

\* the dropdown takes the value v (or keeps the value a click gave it) and
\* update_table runs on it
UpdateTable ==
    /\ app = "ancestrygrid"
    /\ \E v \in SelectionValues, read_ok \in BOOLEAN :
        /\ pending => v = value
        /\ value' = v
        /\ Render(update_table(new_data, has_merged_into, v, read_ok))
    /\ UNCHANGED <<app, new_data, has_merged_into>>

UpdUpdateTable ==
    /\ app = "ancestrygridupdated"
    /\ \E v \in SelectionValues :
        /\ pending => v = value
        /\ value' = v
        /\ Render(upd_update_table(new_data, has_merged_into, v))
    /\ UNCHANGED <<app, new_data, has_merged_into>>

\* what a return value of update_dropdown_on_click does to the dropdown
Returns(result) ==
    /\ outcome' = IF result[1] \in {"value", "no_update"} THEN "ok" ELSE result[1]
    /\ value' = IF result[1] = "value" THEN result[2] ELSE value
    /\ pending' = (pending \/ result[1] = "value")

\* a rendered link is clicked and update_dropdown_on_click runs
ClickLink ==
    /\ \E k \in DOMAIN n_clicks :
        /\ Clicks(n_clicks[k]) < MaxClicks
        /\ n_clicks' = [n_clicks EXCEPT ![k] = {Clicks(@) + 1}]
        /\ Returns(IF app = "ancestrygrid"
                   THEN update_dropdown_on_click(Links(display), n_clicks', k)
                   ELSE upd_update_dropdown_on_click(Links(display), n_clicks'))
    /\ UNCHANGED <<app, new_data, has_merged_into, table, display>>

\* update_dropdown_on_click runs with no link activated: when the page
\* loads and when links are rendered
FireWithoutClick ==
    /\ \A k \in DOMAIN n_clicks : n_clicks[k] = Null
    /\ Returns(IF app = "ancestrygrid"
               THEN update_dropdown_on_click(Links(display), n_clicks, 0)
               ELSE upd_update_dropdown_on_click(Links(display), n_clicks))
    /\ UNCHANGED <<app, new_data, has_merged_into, table, display, n_clicks>>

\* GET /get_data: the dataset as JSON records; nothing changes
get_data ==
    /\ app = "ancestrygridupdated"
    /\ UNCHANGED vars

Next ==
    \/ UpdateTable
    \/ UpdUpdateTable
    \/ ClickLink
    \/ FireWithoutClick
    \/ get_data

Spec == Init /\ [][Next]_vars

\* a session of selections and clicks on a freshly loaded page
InitSession == InitWith(SessionRows, {<<>>})

SpecSession == InitSession /\ [][Next]_vars

\* the due update_table runs
DueUpdateTable == pending /\ UpdateTable

DueUpdUpdateTable == pending /\ UpdUpdateTable

NextDue == DueUpdateTable \/ DueUpdUpdateTable

SpecLineage == InitLineage /\ [][NextDue]_vars

SpecPivot == InitPivot /\ [][NextDue]_vars

\* ------------------------------------------------------------------ lineage

\* update_table has returned for the value of the dropdown
Rendered == ~pending /\ outcome = "ok"

\* the rows of the selected institution: of the selected (name, identifier)
\* in ancestrygrid.py, of the selected name in ancestrygridupdated.py
SelectedRows ==
    IF app = "ancestrygrid"
    THEN {r \in Range(new_data) : value = <<r.current_name, r.unit_id>>}
    ELSE {r \in Range(new_data) : value = <<r.current_name>>}

MergeLinks == SelectSeq(display, LAMBDA e : e.tag = "A" /\ e.type = "merge-link")

MergedFromLinks == SelectSeq(display, LAMBDA e : e.tag = "A" /\ e.type = "merged-from-link")

\* something of a "merged into" target is on the page: a link, the
\* "Merged Into: " caption, or the "Merged Into" column of the table
MergedIntoShown ==
    \/ MergeLinks # <<>>
    \/ \E e \in Range(display) : e.tag = "Span" /\ e.text = "Merged Into: "
    \/ \E row \in Range(table) : \E c \in Range(row.cells) :
            "merged_into_id" \in DOMAIN c

\* C1: an institution whose merged_into_id is null or -1 on all of its
\* records is shown with no "merged into" result.
C1_SentinelNeverShown ==
    (/\ Rendered
     /\ SelectedRows # {}
     /\ \A r \in SelectedRows : r.merged_into_id \in {Null, {Sentinel}})
    => ~MergedIntoShown

\* the merged_into_id values of the selected rows, in row order
SelectedMergedInto ==
    LET rows == SelectSeq(new_data, LAMBDA r : r \in SelectedRows /\ r.merged_into_id # Null)
    IN  [i \in DOMAIN rows |-> Val(rows[i].merged_into_id)]

\* the current names of the records of institution m
CurrentNamesOf(m) == {r.current_name : r \in {q \in Range(new_data) : q.unit_id = m}}

\* the links are one per name of the set, each carrying its name
OneLinkPerName(links, names) ==
    /\ {links[i].text : i \in DOMAIN links} = names
    /\ Len(links) = Cardinality(names)

\* C2 as stated: when the selected institution has one merged_into_id that
\* is neither null nor -1, the "merged into" links are exactly the distinct
\* current names of the records of that institution, one link each.
C2_AllCurrentNames ==
    \A m \in Range(SelectedMergedInto) :
        (Rendered /\ m # Sentinel /\ Range(SelectedMergedInto) = {m})
        => OneLinkPerName(MergeLinks, CurrentNamesOf(m))

\* C2 as amended: ancestrygrid.py takes the first merged_into_id in row
\* order that is neither null nor -1 and links the distinct current names
\* of that institution other than the placeholder "None", each link
\* carrying name|||identifier; ancestrygridupdated.py takes the first
\* non-null merged_into_id and, when it is not -1, links every distinct
\* current name of that institution.
C2_CurrentNamesButPlaceholder ==
    LET valid == SelectSeq(SelectedMergedInto, LAMBDA m : m # Sentinel)
    IN  /\ (Rendered /\ app = "ancestrygrid" /\ valid # <<>>)
           => /\ OneLinkPerName(MergeLinks, CurrentNamesOf(valid[1]) \ {"None"})
              /\ \A i \in DOMAIN MergeLinks :
                    MergeLinks[i].value = <<MergeLinks[i].text, valid[1]>>
        /\ (/\ Rendered
            /\ app = "ancestrygridupdated"
            /\ SelectedMergedInto # <<>>
            /\ SelectedMergedInto[1] # Sentinel)
           => /\ OneLinkPerName(MergeLinks, CurrentNamesOf(SelectedMergedInto[1]))
              /\ \A i \in DOMAIN MergeLinks :
                    MergeLinks[i].value = <<MergeLinks[i].text>>

\* C2's case: an institution merged into one that carries two names other
\* than the placeholder, both linked
C2_Witness ==
    /\ Rendered
    /\ app = "ancestrygrid"
    /\ \E m \in Range(SelectedMergedInto) : m # Sentinel
    /\ Len(MergeLinks) = 2

\* C3: every institution that resolving A lists as absorbed has a record
\* whose merged_into_id is A's identifier.
C3_AbsorbedFromMergedIntoSelected ==
    (Rendered /\ app = "ancestrygrid")
    => \A i \in DOMAIN MergedFromLinks :
        LET b == MergedFromLinks[i]
        IN  \E r \in Range(new_data) :
                /\ r.unit_id = b.unit_id
                /\ <<r.current_name, r.unit_id>> = b.value
                /\ r.merged_into_id = {value[2]}

\* C3's case: A is selected and lists an institution other than itself
C3_Witness ==
    /\ Rendered
    /\ app = "ancestrygrid"
    /\ \E i \in DOMAIN MergedFromLinks : MergedFromLinks[i].unit_id # value[2]

\* the institutions with a record merged into the selected institution
Sources ==
    {r.unit_id : r \in {q \in Range(new_data) :
                            \E t \in SelectedRows : q.merged_into_id = {t.unit_id}}}

\* the "Absorbed: " entries of the display: the links that follow each caption
AbsorbedEntries ==
    LET caps == SelectSeq([i \in DOMAIN display |-> i],
                          LAMBDA i : display[i].tag = "Span" /\ display[i].text = "Absorbed: ")
    IN  [k \in DOMAIN caps |->
            LET to == IF k < Len(caps) THEN caps[k + 1] - 1 ELSE Len(display)
            IN  SelectSeq(SubSeq(display, caps[k], to), LAMBDA e : e.tag = "A")]

\* C4: the "absorbed from" list has exactly one entry per institution with
\* a record merged into the selected one, and the entry names the distinct
\* historical names of that institution.
C4_OneEntryPerSource ==
    (Rendered /\ SelectedRows # {})
    => /\ Len(AbsorbedEntries) = Cardinality(Sources)
       /\ \A u \in Sources : \E k \in DOMAIN AbsorbedEntries :
            /\ \A j \in DOMAIN AbsorbedEntries[k] : AbsorbedEntries[k][j].unit_id = u
            /\ {AbsorbedEntries[k][j].text : j \in DOMAIN AbsorbedEntries[k]}
               = {r.inst_name : r \in {q \in Range(new_data) : q.unit_id = u}}

\* what update_table returns when nothing is selected
NoSelection ==
    IF app = "ancestrygrid"
    THEN update_table(new_data, has_merged_into, <<>>, TRUE)
    ELSE upd_update_table(new_data, has_merged_into, <<>>)

\* C5: a selection that identifies no institution of the dataset gives the
\* outputs of no selection and no error (the partition being readable).
C5_UnknownSelectionIsEmpty ==
    (~pending /\ value # <<>> /\ SelectedRows = {} /\ outcome # "OSError")
    => /\ outcome = "ok"
       /\ table = NoSelection.table
       /\ display = NoSelection.display

\* C6: whether or not the partition of the selected institution can be
\* read, update_table ends without error with the outputs of a successful read.
C6_FailedReadFallsBack ==
    (app = "ancestrygrid" /\ ~pending /\ SelectedRows # {} /\ has_merged_into)
    => /\ outcome = "ok"
       /\ table = update_table(new_data, has_merged_into, value, TRUE).table
       /\ display = update_table(new_data, has_merged_into, value, TRUE).display

\* C7: on a dataset without the merged_into_id column update_table ends
\* without error (the partition being readable), the grid is built and no
\* lineage is shown in either direction.
C7_NoLineageColumn ==
    (/\ ~has_merged_into
     /\ ~pending
     /\ SelectedRows # {}
     /\ outcome # "OSError")
    => /\ outcome = "ok"
       /\ table # <<>>
       /\ ~MergedIntoShown
       /\ AbsorbedEntries = <<>>

\* --------------------------------------------------------------------- grid

\* category_order of the program that runs
Listed == IF app = "ancestrygrid" THEN desired_order ELSE upd_desired_order

OrderIndex(label) == CHOOSE i \in DOMAIN Listed : Listed[i] = label

\* the category rows of a table
GridRows(t) == SelectSeq(t, LAMBDA row : row.kind = "row")

\* the grid of a selected institution is on the page
GridShown == Rendered /\ SelectedRows # {}

\* the degree labels a row shows
RowLabels(row) == {c.summary : c \in {x \in Range(row.cells) : x.tag = "Details"}}

\* the year of column k of the table (column 1 is the caption column)
ColumnYear(k) == table[1].cells[k].year

YearColumns == {k \in 2..Len(table[1].cells) : "year" \in DOMAIN table[1].cells[k]}

\* the dataset without the rows whose degree label is not listed
ListedOnly == SelectSeq(new_data, LAMBDA r : r.degree_label \in Range(Listed))

\* C8: the category rows follow category_order, and a degree label that is
\* not listed produces no row: the grid has as many rows as it has for the
\* dataset without the records of unlisted labels.
C8_RowsFollowCategoryOrder ==
    GridShown =>
    LET rows == GridRows(table)
    IN  /\ \A i \in DOMAIN rows :
            /\ RowLabels(rows[i]) \subseteq Range(Listed)
            /\ Cardinality(RowLabels(rows[i])) <= 1
        /\ \A i, j \in DOMAIN rows : \A a \in RowLabels(rows[i]), b \in RowLabels(rows[j]) :
            i < j => OrderIndex(a) < OrderIndex(b)
        /\ ListedOnly # <<>> =>
            Len(rows) = Len(GridRows(
                IF app = "ancestrygrid"
                THEN update_table(ListedOnly, has_merged_into, value, TRUE).table
                ELSE upd_update_table(ListedOnly, has_merged_into, value).table))

\* the ranks the dataset gives a status in a (year, degree label)
RanksOf(year, label, status) ==
    {r.const_cat_value : r \in {q \in Range(new_data) : /\ q.year = year
                                                        /\ q.degree_label = label
                                                        /\ q.class_status = status}}

\* C9: the statuses of a cell hold no value twice and are in ascending
\* order of const_cat_value.
C9_StatusesByRankOnce ==
    GridShown =>
    \A row \in Range(GridRows(table)) : \A k \in YearColumns :
        LET c == row.cells[k]
        IN  c.tag = "Details" =>
            \A i, j \in DOMAIN c.statuses :
                i < j =>
                /\ c.statuses[i].text # c.statuses[j].text
                /\ \E ri \in RanksOf(ColumnYear(k), c.summary, c.statuses[i].text),
                      rj \in RanksOf(ColumnYear(k), c.summary, c.statuses[j].text) : ri <= rj

\* C10: a listed category with records in a year has its cell in the
\* column of that year, however many categories the years have.
C10_NoCategoryOmitted ==
    GridShown =>
    \A r \in Range(new_data) :
        r.degree_label \in Range(Listed) =>
        \E k \in YearColumns : \E row \in Range(GridRows(table)) :
            /\ ColumnYear(k) = r.year
            /\ row.cells[k].tag = "Details"
            /\ row.cells[k].summary = r.degree_label

\* C12: a status listed in the cell of a (category, year) is highlighted
\* exactly when the selected institution has a record of that year, that
\* category and that status.
C12_HighlightedIffPresent ==
    GridShown =>
    \A row \in Range(GridRows(table)) : \A k \in YearColumns :
        LET c == row.cells[k]
        IN  c.tag = "Details" =>
            \A i \in DOMAIN c.statuses :
                c.statuses[i].highlighted
                <=> \E r \in SelectedRows : /\ r.year = ColumnYear(k)
                                            /\ r.degree_label = c.summary
                                            /\ r.class_status = c.statuses[i].text

\* -------------------------------------------------------------- interaction

\* what update_table returns for the selection v on the dataset, the
\* partition being readable
Resolved(v) ==
    IF app = "ancestrygrid"
    THEN update_table(new_data, has_merged_into, v, TRUE)
    ELSE upd_update_table(new_data, has_merged_into, v)

Activated(k) ==
    /\ display' = display
    /\ DOMAIN n_clicks' = DOMAIN n_clicks
    /\ n_clicks'[k] = {Clicks(n_clicks[k]) + 1}
    /\ \A j \in DOMAIN n_clicks \ {k} : n_clicks'[j] = n_clicks[j]

\* C13: in every session, activating a link sets the dropdown to the value
\* that link carries, which is the value of an option; when
\* update_dropdown_on_click runs with no link activated the dropdown keeps
\* its value.
C13_ClickSelectsActivatedLink ==
    [][/\ \A k \in DOMAIN n_clicks :
            Activated(k) => /\ value' = Links(display)[k].value
                            /\ value' \in DropdownValues
       /\ FireWithoutClick => value' = value]_vars

====
